---- MODULE Spec2Model ----
(***************************************************************************)
(* Order placement and inventory model of the OrderMe backend.             *)
(*                                                                         *)
(* State: the products, orders and order_items tables, the events handed   *)
(* to event_bus.publish, and one record per request (its position in the   *)
(* service method it runs and that method's local variables).              *)
(*                                                                         *)
(* Each request has its own SQLAlchemy session (database.get_db), so a     *)
(* repository read and the later repository write of the same method are   *)
(* two database operations: other requests may commit between them.  One   *)
(* action of the model is one such database operation together with the    *)
(* local computation that follows it.                                      *)
(*                                                                         *)
(* OrderService is written against the repository contract of              *)
(* BaseRepository (get_by_id, create(dict), update(id, dict)); the order   *)
(* table operations are modelled with those semantics.                     *)
(*                                                                         *)
(* Money is counted in whole currency units (Numeric(10, 2) prices whose   *)
(* products with small integer quantities are exact in float as well).     *)
(***************************************************************************)
EXTENDS Integers, Sequences, FiniteSets, TLC

VARIABLES products, orders, items, published, proc, calls, payments, handlers, delivered

vars == <<products, orders, items, published, proc, calls, payments, handlers, delivered>>

----------------------------------------------------------------------------
(* Bounds of the model *)

MaxSubs == 2
MaxPublished == 2
NumProcs == 2
NumProducts == 2
MaxCalls == 2
MaxLines == 2
MaxQty == 2
MaxStock == 3
MaxPrice == 2

Procs == 1..NumProcs

(* Product ids of the catalogue, and an id no product has *)
ProductIds == 1..NumProducts
MissingProductId == NumProducts + 1

----------------------------------------------------------------------------
(* models/enums.py *)

OrderStatus == {"pending", "confirmed", "preparing", "ready", "delivered", "cancelled"}

OrderStatusSeq == <<"pending", "confirmed", "preparing", "ready", "delivered", "cancelled">>

(* Names of the members of OrderStatus *)
OrderStatusMembers == {"PENDING", "CONFIRMED", "PREPARING", "READY", "DELIVERED", "CANCELLED"}

(* OrderStatus.<NAME>.value *)
StatusValue(name) ==
    CASE name = "PENDING" -> "pending"
      [] name = "CONFIRMED" -> "confirmed"
      [] name = "PREPARING" -> "preparing"
      [] name = "READY" -> "ready"
      [] name = "DELIVERED" -> "delivered"
      [] name = "CANCELLED" -> "cancelled"

----------------------------------------------------------------------------
(* models/product.py *)

NullProduct ==
    [id |-> 0, price |-> 0, is_available |-> FALSE, min_stock_level |-> 0,
     max_stock_level |-> 0, qty_in_stock |-> 0, last_restock_date |-> 0]

(* date.today(); 0 stands for a NULL last_restock_date *)
Today == 1

is_in_stock(product) == product.qty_in_stock > 0

needs_restock(product) == product.qty_in_stock <= product.min_stock_level

LowStockEvent(product_id, current_stock, min_stock) ==
    [type |-> "LowStockEvent", product_id |-> product_id,
     current_stock |-> current_stock, min_stock |-> min_stock]

OutOfStockEvent(product_id) ==
    [type |-> "OutOfStockEvent", product_id |-> product_id,
     current_stock |-> 0, min_stock |-> 0]

(* Product.update_stock testing only the new quantity against the thresholds *)
update_stock_events_mut(product, quantity_change) ==
    LET new_qty == product.qty_in_stock + quantity_change
    IN  (IF new_qty <= product.min_stock_level
         THEN <<LowStockEvent(product.id, new_qty, product.min_stock_level)>>
         ELSE <<>>)
        \o
        (IF new_qty <= 0 THEN <<OutOfStockEvent(product.id)>> ELSE <<>>)

(* Product.update_stock: the events generated by changing old_qty by quantity_change *)
update_stock_events(product, quantity_change) ==
    LET old_qty == product.qty_in_stock
        new_qty == product.qty_in_stock + quantity_change
    IN  (IF old_qty > product.min_stock_level /\ new_qty <= product.min_stock_level
         THEN <<LowStockEvent(product.id, new_qty, product.min_stock_level)>>
         ELSE <<>>)
        \o
        (IF old_qty > 0 /\ new_qty <= 0
         THEN <<OutOfStockEvent(product.id)>>
         ELSE <<>>)

(* Product.restock applying every quantity *)
restock_mut(product, quantity) ==
    [error |-> "none",
     product |-> [product EXCEPT !.qty_in_stock = @ + quantity,
                                 !.last_restock_date = Today]]

(* Product.restock: the error raised and the product as the call leaves it;
   the events update_stock returns are dropped *)
restock(product, quantity) ==
    IF quantity <= 0
    THEN [error |-> "ValueError", product |-> product]
    ELSE [error |-> "none",
          product |-> [product EXCEPT !.qty_in_stock = @ + quantity,
                                      !.last_restock_date = Today]]

----------------------------------------------------------------------------
(* utils/events.py, utils/notification_handlers.py *)

EventTypes == {"LowStockEvent", "OutOfStockEvent"}

(* The callables subscribed to the bus: the two notification handlers, which
   log and return, and a handler that raises *)
HandlerNames == {"handle_low_stock_event", "handle_out_of_stock_event", "raising_handler"}

HandlerRaises(handler) == handler = "raising_handler"

(* EventBus.__init__: no handlers; a type without a key is a type with no handler *)
NoHandlers == [t \in EventTypes |-> <<>>]

(* register_event_handlers *)
RegisteredHandlers ==
    [NoHandlers EXCEPT !["LowStockEvent"] = <<"handle_low_stock_event">>,
                       !["OutOfStockEvent"] = <<"handle_out_of_stock_event">>]

(* lines 51-52: the handlers are called in order; one that raises ends the
   loop.  n numbers the publication *)
RECURSIVE invoke(_, _, _)
invoke(hs, event, n) ==
    IF hs = <<>> THEN [calls |-> <<>>, raised |-> FALSE]
    ELSE LET call == [handler |-> Head(hs), event |-> event, pub |-> n]
         IN  IF HandlerRaises(Head(hs))
             THEN [calls |-> <<call>>, raised |-> TRUE]
             ELSE LET rest == invoke(Tail(hs), event, n)
                  IN  [calls |-> <<call>> \o rest.calls, raised |-> rest.raised]

(* EventBus.publish *)
publish(bus, event, n) == invoke(bus[event.type], event, n)

(* `for event in events: event_bus.publish(event)`, n publications having
   been made before *)
RECURSIVE publish_all(_, _, _)
publish_all(bus, events, n) ==
    IF events = <<>> THEN [published |-> <<>>, calls |-> <<>>, raised |-> FALSE]
    ELSE LET first == publish(bus, Head(events), n + 1)
         IN  IF first.raised
             THEN [published |-> <<Head(events)>>, calls |-> first.calls, raised |-> TRUE]
             ELSE LET rest == publish_all(bus, Tail(events), n + 1)
                  IN  [published |-> <<Head(events)>> \o rest.published,
                       calls |-> first.calls \o rest.calls,
                       raised |-> rest.raised]

----------------------------------------------------------------------------
(* repositories/base_repository.py *)

(* BaseRepository.get_by_id on the products table: the row, or None *)
get_product_by_id(id) ==
    IF id \in DOMAIN products THEN products[id] ELSE NullProduct

(* BaseRepository.get_by_id on the orders table *)
order_exists(id) == id \in DOMAIN orders

(* BaseRepository.update on the products table: setattr for every key of data, commit *)
update_product_row(tbl, id, data) ==
    IF id \in DOMAIN tbl
    THEN [tbl EXCEPT ![id] =
            [f \in DOMAIN tbl[id] |-> IF f \in DOMAIN data THEN data[f] ELSE tbl[id][f]]]
    ELSE tbl

(* BaseRepository.update, lines 46-48: setattr on the instance the session
   loaded, then commit.  The commit writes the columns whose value differs
   from the loaded one *)
modified(loaded, data) ==
    [f \in {g \in DOMAIN data : data[g] # loaded[g]} |-> data[f]]

(* BaseRepository.update on the orders table *)
update_order_row(tbl, id, data) ==
    IF id \in DOMAIN tbl
    THEN [tbl EXCEPT ![id] =
            [f \in DOMAIN tbl[id] |-> IF f \in DOMAIN data THEN data[f] ELSE tbl[id][f]]]
    ELSE tbl

----------------------------------------------------------------------------
(* Requests *)

IdleProc ==
    [pc |-> "idle", op |-> "none", lines |-> <<>>, i |-> 0, product |-> NullProduct,
     total_amount |-> 0, order_items |-> <<>>, target |-> 0, status |-> "none",
     change |-> 0, data |-> <<>>, result |-> "none",
     pre_qty |-> <<>>, pre_orders |-> <<>>, pre_items |-> <<>>,
     pre_payments |-> <<>>, alone |-> TRUE]

(* A request can start when its previous call has returned and the budget allows *)
CanCall(p) == proc[p].pc \in {"idle", "done"} /\ calls < MaxCalls

(* The local state of a call that just started *)
StartCall(op) ==
    [IdleProc EXCEPT !.op = op,
                     !.pre_qty = [id \in ProductIds |-> products[id].qty_in_stock],
                     !.pre_orders = orders,
                     !.pre_items = items,
                     !.pre_payments = payments]

(* Request p moves to `next` with a write to the tables.  alone records, for
   the call of every other request, that no other request wrote to the tables
   since that call started *)
Disturb(p, next) ==
    [q \in Procs |-> IF q = p THEN next
                     ELSE IF proc[q].pc = "idle" THEN proc[q]
                     ELSE [proc[q] EXCEPT !.alone = FALSE]]

Rejections == {"not_found", "not_available", "not_enough_stock"}

----------------------------------------------------------------------------
(* services/order_service.py: OrderService.create_order *)

Line(product_id, quantity) == [product_id |-> product_id, quantity |-> quantity]

LineSet ==
    {Line(id, q) : id \in ProductIds, q \in 1..MaxQty} \cup {Line(MissingProductId, 1)}

OrderLines == UNION {[1..n -> LineSet] : n \in 0..MaxLines}

(* create_order without the stock test *)
not_enough_in_stock_mut(product, quantity) == FALSE

(* line 60: product.qty_in_stock < item_data.quantity *)
not_enough_in_stock(product, quantity) == product.qty_in_stock < quantity

(* create_order taking one unit whatever the quantity of the line *)
updated_stock_mut(product, quantity) == product.qty_in_stock - 1

(* line 64: updated_stock *)
updated_stock(product, quantity) == product.qty_in_stock - quantity

(* create_order adding the unit price of a line instead of the line total *)
item_total_mut(price, quantity) == price

(* line 68: item_total *)
item_total(price, quantity) == price * quantity

(* schemas/order.py OrderBase.status: the status an OrderCreate request carries
   when it sets none *)
DefaultStatus == StatusValue("PENDING")

(* An address column or request field that is not set *)
NoAddress == "none"

(* create_order persisting the status the request carries *)
order_dict_mut(status, total_amount) ==
    [status |-> status, total_amount |-> total_amount,
     shipping_address |-> NoAddress, billing_address |-> NoAddress]

(* lines 79-85: order_dict; the requests of the model leave the optional
   addresses unset *)
order_dict(status, total_amount) ==
    [status |-> StatusValue("PENDING"), total_amount |-> total_amount,
     shipping_address |-> NoAddress, billing_address |-> NoAddress]

(* lines 47-50: the call starts with total_amount = 0 and no order items *)
create_order_call(p, lines, status) ==
    /\ CanCall(p)
    /\ calls' = calls + 1
    /\ proc' = [proc EXCEPT ![p] =
                  [StartCall("create_order") EXCEPT
                      !.lines = lines, !.i = 1, !.status = status,
                      !.pc = IF Len(lines) = 0 THEN "co_create" ELSE "co_read"]]
    /\ UNCHANGED <<products, orders, items, published>>
    /\ UNCHANGED <<payments, handlers, delivered>>

(* create_order persisting the order before its lines are validated: a
   rejection leaves the row behind *)
create_order_read_mut(p) ==
    /\ proc[p].pc = "co_read"
    /\ LET item_data == proc[p].lines[proc[p].i]
           product == get_product_by_id(item_data.product_id)
           rejected == \/ product = NullProduct
                       \/ ~product.is_available
                       \/ product.qty_in_stock < item_data.quantity
       IN  /\ proc' = [proc EXCEPT ![p] =
                IF product = NullProduct
                THEN [@ EXCEPT !.pc = "done", !.result = "not_found"]
                ELSE IF ~product.is_available
                THEN [@ EXCEPT !.pc = "done", !.result = "not_available"]
                ELSE IF product.qty_in_stock < item_data.quantity
                THEN [@ EXCEPT !.pc = "done", !.result = "not_enough_stock"]
                ELSE [@ EXCEPT !.pc = "co_write", !.product = product]]
           /\ orders' = IF rejected
                        THEN Append(orders, order_dict(proc[p].status, proc[p].total_amount))
                        ELSE orders
    /\ UNCHANGED <<products, items, published, calls>>
    /\ UNCHANGED <<payments, handlers, delivered>>

(* lines 53-61: read the product of line i and validate it *)
create_order_read(p) ==
    /\ proc[p].pc = "co_read"
    /\ LET item_data == proc[p].lines[proc[p].i]
           product == get_product_by_id(item_data.product_id)
       IN  proc' = [proc EXCEPT ![p] =
                IF product = NullProduct
                THEN [@ EXCEPT !.pc = "done", !.result = "not_found"]
                ELSE IF ~product.is_available
                THEN [@ EXCEPT !.pc = "done", !.result = "not_available"]
                ELSE IF not_enough_in_stock(product, item_data.quantity)
                THEN [@ EXCEPT !.pc = "done", !.result = "not_enough_stock"]
                ELSE [@ EXCEPT !.pc = "co_write", !.product = product]]
    /\ UNCHANGED <<products, orders, items, published, calls>>
    /\ UNCHANGED <<payments, handlers, delivered>>

(* lines 63-76: write the stock computed from the product read, then price the line
   from the product as refreshed by the repository after its commit *)
create_order_reserve(p) ==
    /\ proc[p].pc = "co_write"
    /\ LET item_data == proc[p].lines[proc[p].i]
           product == proc[p].product
           tbl == update_product_row(products, product.id,
                      [qty_in_stock |-> updated_stock(product, item_data.quantity)])
           price == tbl[product.id].price
           next == [proc[p] EXCEPT
                      !.total_amount = @ + item_total(price, item_data.quantity),
                      !.order_items = Append(@, [product_id |-> item_data.product_id,
                                                 quantity |-> item_data.quantity,
                                                 unit_price |-> price]),
                      !.i = @ + 1,
                      !.product = NullProduct,
                      !.pc = IF proc[p].i = Len(proc[p].lines) THEN "co_create" ELSE "co_read"]
       IN  /\ products' = tbl
           /\ proc' = Disturb(p, next)
    /\ UNCHANGED <<orders, items, published, calls>>
    /\ UNCHANGED <<payments, handlers, delivered>>

(* lines 78-87: order_repository.create(order_dict) *)
create_order_persist(p) ==
    /\ proc[p].pc = "co_create"
    /\ orders' = Append(orders, order_dict(proc[p].status, proc[p].total_amount))
    /\ proc' = Disturb(p, [proc[p] EXCEPT
                  !.target = Len(orders) + 1,
                  !.i = 1,
                  !.pc = IF Len(proc[p].order_items) = 0 THEN "done" ELSE "co_items",
                  !.result = IF Len(proc[p].order_items) = 0 THEN "ok" ELSE "none"])
    /\ UNCHANGED <<products, items, published, calls>>
    /\ UNCHANGED <<payments, handlers, delivered>>

(* lines 90-97: order_repository.add_order_item for the next order item *)
create_order_add_item(p) ==
    /\ proc[p].pc = "co_items"
    /\ LET item_data == proc[p].order_items[proc[p].i]
           last == proc[p].i = Len(proc[p].order_items)
       IN  /\ items' = Append(items, [order_id |-> proc[p].target,
                                      product_id |-> item_data.product_id,
                                      quantity |-> item_data.quantity,
                                      unit_price |-> item_data.unit_price])
           /\ proc' = Disturb(p, [proc[p] EXCEPT
                         !.i = @ + 1,
                         !.pc = IF last THEN "done" ELSE "co_items",
                         !.result = IF last THEN "ok" ELSE "none"])
    /\ UNCHANGED <<products, orders, published, calls>>
    /\ UNCHANGED <<payments, handlers, delivered>>

(* lines 87 and 97: the commit of order_repository.create or of
   add_order_item raises; create_order catches nothing, so the call ends with
   the error and everything committed before it stays *)
create_order_write_fails(p) ==
    /\ proc[p].pc \in {"co_create", "co_items"}
    /\ proc' = [proc EXCEPT ![p] = [@ EXCEPT !.pc = "done", !.result = "write_failed"]]
    /\ UNCHANGED <<products, orders, items, published, calls>>
    /\ UNCHANGED <<payments, handlers, delivered>>

----------------------------------------------------------------------------
(* services/order_service.py: update_order *)

(* schemas/order.py OrderUpdate: every field is optional *)
OrderUpdates ==
    [status : {"none", StatusValue("PENDING"), StatusValue("DELIVERED")},
     shipping_address : {NoAddress, "changed"},
     billing_address : {NoAddress, "changed"}]

(* update_order writing every field the request sets, its status included *)
order_update_data_mut(order_data) ==
    [f \in {g \in DOMAIN order_data : order_data[g] # "none"} |-> order_data[f]]

(* lines 102-107: update_data takes the addresses the request sets *)
order_update_data(order_data) ==
    [f \in {g \in {"shipping_address", "billing_address"} : order_data[g] # NoAddress}
        |-> order_data[f]]

(* lines 99-110: the order is looked up and, if it exists, updated with
   update_data.  What is written does not depend on what was read and orders
   are never deleted, so the lookup and the write are one step *)
update_order(p, order_id, order_data) ==
    /\ CanCall(p)
    /\ calls' = calls + 1
    /\ LET call == [StartCall("update_order") EXCEPT !.target = order_id,
                                                     !.data = order_data]
       IN  IF order_exists(order_id)
           THEN /\ orders' = update_order_row(orders, order_id, order_update_data(order_data))
                /\ proc' = Disturb(p, [call EXCEPT !.pc = "done", !.result = "ok"])
           ELSE /\ orders' = orders
                /\ proc' = [proc EXCEPT ![p] = [call EXCEPT !.pc = "done", !.result = "None"]]
    /\ UNCHANGED <<products, items, published>>
    /\ UNCHANGED <<payments, handlers, delivered>>

----------------------------------------------------------------------------

(* services/order_service.py: update_order_status, cancel_order *)

(* lines 125-132: the table as written, by member name *)
valid_transitions ==
    [PENDING |-> {"PROCESSING", "CANCELLED"},
     PROCESSING |-> {"SHIPPED", "CANCELLED"},
     SHIPPED |-> {"DELIVERED", "RETURNED"},
     DELIVERED |-> {"RETURNED"},
     RETURNED |-> {},
     CANCELLED |-> {}]

(* The members of OrderStatus the table names *)
TableMembers == DOMAIN valid_transitions \cup UNION {valid_transitions[k] : k \in DOMAIN valid_transitions}

(* OrderStatus(value).name *)
StatusName(value) == CHOOSE name \in OrderStatusMembers : StatusValue(name) = value

(* update_order_status accepting every transition *)
is_valid_status_transition_mut(current_status, new_status) == "True"

(* lines 123-134: building the table looks up every member it names, and the
   lookup of a name OrderStatus does not have raises AttributeError *)
is_valid_status_transition(current_status, new_status) ==
    IF ~(TableMembers \subseteq OrderStatusMembers) THEN "AttributeError"
    ELSE IF StatusName(current_status) \in DOMAIN valid_transitions
            /\ StatusName(new_status) \in valid_transitions[StatusName(current_status)]
    THEN "True"
    ELSE "False"

(* cancel_order accepting an order that is already being prepared *)
cancellable_mut == {StatusValue("PENDING"), StatusValue("CONFIRMED"), StatusValue("PREPARING")}

(* line 138: the statuses cancel_order accepts *)
cancellable == {StatusValue("PENDING"), StatusValue("CONFIRMED")}

(* update_order_status announcing the product of the order's first item as out
   of stock *)
update_order_status_mut(p, order_id, status) ==
    /\ CanCall(p)
    /\ calls' = calls + 1
    /\ LET valid == IF order_exists(order_id)
                    THEN is_valid_status_transition(orders[order_id].status, status)
                    ELSE "None"
           call == [StartCall("update_order_status") EXCEPT
                       !.target = order_id, !.status = status, !.pc = "done",
                       !.result = CASE valid = "None" -> "None"
                                    [] valid = "AttributeError" -> "AttributeError"
                                    [] valid = "False" -> "invalid_transition"
                                    [] valid = "True" -> "ok"]
       IN  /\ orders' = IF valid = "True"
                        THEN update_order_row(orders, order_id, [status |-> status])
                        ELSE orders
           /\ proc' = IF valid = "True" THEN Disturb(p, call) ELSE [proc EXCEPT ![p] = call]
    /\ published' = Append(published, OutOfStockEvent(1))
    /\ UNCHANGED <<products, items>>
    /\ UNCHANGED <<payments, handlers, delivered>>

(* lines 112-121, one database transaction: the order is read, the transition
   validated and OrderRepository.update_order_status applied *)
update_order_status(p, order_id, status) ==
    /\ CanCall(p)
    /\ calls' = calls + 1
    /\ LET valid == IF order_exists(order_id)
                    THEN is_valid_status_transition(orders[order_id].status, status)
                    ELSE "None"
           call == [StartCall("update_order_status") EXCEPT
                       !.target = order_id, !.status = status, !.pc = "done",
                       !.result = CASE valid = "None" -> "None"
                                    [] valid = "AttributeError" -> "AttributeError"
                                    [] valid = "False" -> "invalid_transition"
                                    [] valid = "True" -> "ok"]
       IN  /\ orders' = IF valid = "True"
                        THEN update_order_row(orders, order_id, [status |-> status])
                        ELSE orders
           /\ proc' = IF valid = "True" THEN Disturb(p, call) ELSE [proc EXCEPT ![p] = call]
    /\ UNCHANGED <<products, items, published>>
    /\ UNCHANGED <<payments, handlers, delivered>>

(* lines 137-138: read the order and test its status *)
cancel_order_call(p, order_id) ==
    /\ CanCall(p)
    /\ calls' = calls + 1
    /\ proc' = [proc EXCEPT ![p] =
                  IF order_exists(order_id) /\ orders[order_id].status \in cancellable
                  THEN [StartCall("cancel_order") EXCEPT !.target = order_id, !.pc = "cancel_write"]
                  ELSE [StartCall("cancel_order") EXCEPT !.target = order_id, !.pc = "done",
                                                         !.result = "None"]]
    /\ UNCHANGED <<products, orders, items, published>>
    /\ UNCHANGED <<payments, handlers, delivered>>

(* line 139: order_repository.update(order_id, {"status": CANCELLED}) *)
cancel_order_write(p) ==
    /\ proc[p].pc = "cancel_write"
    /\ orders' = update_order_row(orders, proc[p].target, [status |-> StatusValue("CANCELLED")])
    /\ proc' = Disturb(p, [proc[p] EXCEPT !.pc = "done", !.result = "ok"])
    /\ UNCHANGED <<products, items, published, calls>>
    /\ UNCHANGED <<payments, handlers, delivered>>

----------------------------------------------------------------------------
(* services/product_service.py *)

(* schemas/product.py StockUpdateRequest: quantity_change is not zero *)
StockChanges == ((0 - MaxQty)..MaxQty) \ {0}

(* lines 140-146: read the product and refuse a change below zero *)
update_stock_call(p, product_id, quantity_change) ==
    /\ CanCall(p)
    /\ calls' = calls + 1
    /\ LET product == get_product_by_id(product_id)
           call == [StartCall("update_stock") EXCEPT !.target = product_id,
                                                     !.change = quantity_change]
       IN  /\ product # NullProduct => product.qty_in_stock + quantity_change <= MaxStock
           /\ proc' = [proc EXCEPT ![p] =
                  IF product = NullProduct
                  THEN [call EXCEPT !.pc = "done", !.result = "None"]
                  ELSE IF product.qty_in_stock + quantity_change < 0
                  THEN [call EXCEPT !.pc = "done", !.result = "below_zero"]
                  ELSE [call EXCEPT !.pc = "us_write", !.product = product]]
    /\ UNCHANGED <<products, orders, items, published>>
    /\ UNCHANGED <<payments, handlers, delivered>>

(* update_stock dating every change of stock *)
restock_date_mut(product, quantity_change) == Today

(* lines 152-153: last_restock_date is set when stock is added *)
restock_date(product, quantity_change) ==
    IF quantity_change > 0 THEN Today ELSE product.last_restock_date

(* lines 148-168: Product.update_stock on the product read, the repository
   update of qty_in_stock and last_restock_date, then the events published *)
update_stock_write(p) ==
    /\ proc[p].pc = "us_write"
    /\ LET product == proc[p].product
           quantity_change == proc[p].change
           events == update_stock_events(product, quantity_change)
           sent == publish_all(handlers, events, Len(published))
       IN  /\ products' = update_product_row(products, product.id,
                  modified(product,
                      [qty_in_stock |-> product.qty_in_stock + quantity_change,
                       last_restock_date |-> restock_date(product, quantity_change)]))
           /\ published' = published \o sent.published
           /\ delivered' = delivered \o sent.calls
           /\ proc' = Disturb(p, [proc[p] EXCEPT
                         !.pc = "done",
                         !.result = IF sent.raised THEN "handler_error" ELSE "ok",
                         !.product = NullProduct])
    /\ UNCHANGED <<orders, items, calls, payments, handlers>>

(* schemas/product.py ProductUpdate: the fields a request sets (exclude_unset) *)
ProductUpdates ==
    {[price |-> x] : x \in 1..MaxPrice}
    \cup {[qty_in_stock |-> n] : n \in 0..MaxStock}
    \cup {[is_available |-> b] : b \in BOOLEAN}

(* schemas/product.py ProductUpdate: requests that set min_stock_level,
   max_stock_level or both; the root validator refuses max <= min when both
   are set *)
LevelUpdates ==
    {[min_stock_level |-> m] : m \in 1..MaxStock}
    \cup {[max_stock_level |-> x] : x \in 1..MaxStock}
    \cup {[min_stock_level |-> l[1], max_stock_level |-> l[2]] :
             l \in {k \in (1..MaxStock) \X (1..MaxStock) : k[2] > k[1]}}

(* update_product without the stock level test *)
invalid_levels_mut(product, update_data) == FALSE

(* lines 96-100: the stock levels the update would leave are inconsistent *)
invalid_levels(product, update_data) ==
    LET new_min == IF "min_stock_level" \in DOMAIN update_data
                   THEN update_data.min_stock_level ELSE product.min_stock_level
        new_max == IF "max_stock_level" \in DOMAIN update_data
                   THEN update_data.max_stock_level ELSE product.max_stock_level
    IN  /\ ("min_stock_level" \in DOMAIN update_data \/ "max_stock_level" \in DOMAIN update_data)
        /\ new_max <= new_min

(* lines 82-100: read the product and validate the stock levels *)
update_product_call(p, product_id, update_data) ==
    /\ CanCall(p)
    /\ calls' = calls + 1
    /\ LET product == get_product_by_id(product_id)
           call == [StartCall("update_product") EXCEPT !.target = product_id,
                                                       !.data = update_data]
       IN  proc' = [proc EXCEPT ![p] =
                  IF product = NullProduct
                  THEN [call EXCEPT !.pc = "done", !.result = "None"]
                  ELSE IF invalid_levels(product, update_data)
                  THEN [call EXCEPT !.pc = "done", !.result = "invalid_levels",
                                    !.product = product]
                  ELSE [call EXCEPT !.pc = "up_write", !.product = product]]
    /\ UNCHANGED <<products, orders, items, published>>
    /\ UNCHANGED <<payments, handlers, delivered>>

(* update_product re-pricing the order items of the product it updates *)
update_product_write_mut(p) ==
    /\ proc[p].pc = "up_write"
    /\ products' = update_product_row(products, proc[p].target,
                                      modified(proc[p].product, proc[p].data))
    /\ items' = [k \in 1..Len(items) |->
                    IF items[k].product_id = proc[p].target
                    THEN [items[k] EXCEPT !.unit_price = products'[proc[p].target].price]
                    ELSE items[k]]
    /\ proc' = Disturb(p, [proc[p] EXCEPT !.pc = "done", !.result = "ok",
                                          !.product = NullProduct])
    /\ UNCHANGED <<orders, published, calls>>
    /\ UNCHANGED <<payments, handlers, delivered>>

(* lines 102-116: the repository update returns the session's instance of the
   row, which is the object `product` already names: both sides of each event
   test read the refreshed row *)
update_product_write(p) ==
    /\ proc[p].pc = "up_write"
    /\ LET tbl == update_product_row(products, proc[p].target,
                                     modified(proc[p].product, proc[p].data))
           updated_product == tbl[proc[p].target]
           product == updated_product
           events ==
                (IF needs_restock(updated_product) /\ ~needs_restock(product)
                 THEN <<LowStockEvent(updated_product.id, updated_product.qty_in_stock,
                                      updated_product.min_stock_level)>>
                 ELSE <<>>)
                \o (IF ~is_in_stock(updated_product) /\ is_in_stock(product)
                    THEN <<OutOfStockEvent(updated_product.id)>>
                    ELSE <<>>)
           sent == publish_all(handlers, events, Len(published))
       IN  /\ products' = tbl
           /\ published' = published \o sent.published
           /\ delivered' = delivered \o sent.calls
           /\ proc' = Disturb(p, [proc[p] EXCEPT
                         !.pc = "done",
                         !.result = IF sent.raised THEN "handler_error" ELSE "ok",
                         !.product = NullProduct])
    /\ UNCHANGED <<orders, items, calls, payments, handlers>>

----------------------------------------------------------------------------
(* The tables before the first request: one order in every status, each with
   one line priced at its product's price *)

SeedProduct(k) == ((k - 1) % NumProducts) + 1

InitProducts ==
    [id \in ProductIds |->
        [id |-> id, price |-> ((id - 1) % MaxPrice) + 1, is_available |-> TRUE,
         min_stock_level |-> 1, max_stock_level |-> MaxStock, qty_in_stock |-> 2,
         last_restock_date |-> 0]]

InitOrders ==
    [k \in 1..Len(OrderStatusSeq) |->
        [status |-> OrderStatusSeq[k], total_amount |-> InitProducts[SeedProduct(k)].price,
         shipping_address |-> "seeded", billing_address |-> "seeded"]]

InitItems ==
    [k \in 1..Len(OrderStatusSeq) |->
        [order_id |-> k, product_id |-> SeedProduct(k), quantity |-> 1,
         unit_price |-> InitProducts[SeedProduct(k)].price]]

OrderIds == 0..(Len(InitOrders) + MaxCalls)

(* enums.py PaymentStatus: the members *)
PaymentStatus == {"PENDING", "COMPLETED", "FAILED", "REFUNDED"}

PaymentStatusSeq == <<"PENDING", "COMPLETED", "FAILED", "REFUNDED">>

(* One payment in every status, for the first orders; status holds the member
   the Enum column yields *)
InitPayments ==
    [k \in 1..Len(PaymentStatusSeq) |-> [order_id |-> k, status |-> PaymentStatusSeq[k]]]

Init ==
    /\ products = InitProducts
    /\ orders = InitOrders
    /\ items = InitItems
    /\ published = <<>>
    /\ proc = [p \in Procs |-> IdleProc]
    /\ calls = 0
    /\ payments = InitPayments
    /\ handlers = RegisteredHandlers
    /\ delivered = <<>>

Next ==
    \E p \in Procs :
        \/ \E lines \in OrderLines : create_order_call(p, lines, DefaultStatus)
        \/ create_order_read(p)
        \/ create_order_reserve(p)
        \/ create_order_persist(p)
        \/ create_order_add_item(p)
        \/ \E o \in OrderIds, s \in OrderStatus : update_order_status(p, o, s)
        \/ \E o \in OrderIds : cancel_order_call(p, o)
        \/ cancel_order_write(p)
        \/ \E id \in ProductIds \cup {MissingProductId}, c \in StockChanges :
              update_stock_call(p, id, c)
        \/ update_stock_write(p)
        \/ \E id \in ProductIds \cup {MissingProductId}, d \in ProductUpdates :
              update_product_call(p, id, d)
        \/ update_product_write(p)
        \/ \E o \in OrderIds, order_data \in OrderUpdates : update_order(p, o, order_data)

Spec == Init /\ [][Next]_vars

(* Requests that only place orders *)
NextOrders ==
    \E p \in Procs :
        \/ \E lines \in OrderLines : create_order_call(p, lines, DefaultStatus)
        \/ create_order_read(p)
        \/ create_order_reserve(p)
        \/ create_order_persist(p)
        \/ create_order_add_item(p)

SpecOrders == Init /\ [][NextOrders]_vars

(* Requests that place orders, against a database whose writes of orders and
   order items can fail *)
NextFail ==
    \/ NextOrders
    \/ \E p \in Procs : create_order_write_fails(p)

SpecFail == Init /\ [][NextFail]_vars

(* One client placing orders one after another, its requests carrying any status *)
Client == 1

NextStatus ==
    \/ \E lines \in OrderLines, status \in OrderStatus :
          create_order_call(Client, lines, status)
    \/ create_order_read(Client)
    \/ create_order_reserve(Client)
    \/ create_order_persist(Client)
    \/ create_order_add_item(Client)

SpecStatus == Init /\ [][NextStatus]_vars

(* schemas/product.py ProductCreate: min_stock_level > 0 and, by the
   validator, max_stock_level > min_stock_level; category 1 exists, 2 does not *)
Categories == {1}

ProductCreates ==
    [price : {1}, category_id : {1, 2}, is_available : {TRUE},
     min_stock_level : 1..MaxStock, max_stock_level : 1..MaxStock,
     qty_in_stock : 0..MaxStock]

ValidProductCreates ==
    {d \in ProductCreates : d.max_stock_level > d.min_stock_level}

(* ProductService.create_product, lines 58-79: the category is looked up, the
   product created under a fresh id and a LowStockEvent published if it needs
   restocking *)
create_product(p, product_data) ==
    /\ CanCall(p)
    /\ calls' = calls + 1
    /\ LET call == [StartCall("create_product") EXCEPT !.data = product_data, !.pc = "done"]
           id == Cardinality(DOMAIN products) + 1
           product == [id |-> id, price |-> product_data.price,
                       is_available |-> product_data.is_available,
                       min_stock_level |-> product_data.min_stock_level,
                       max_stock_level |-> product_data.max_stock_level,
                       qty_in_stock |-> product_data.qty_in_stock,
                       last_restock_date |-> 0]
           events == IF needs_restock(product)
                     THEN <<LowStockEvent(id, product.qty_in_stock, product.min_stock_level)>>
                     ELSE <<>>
           sent == publish_all(handlers, events, Len(published))
       IN  IF product_data.category_id \notin Categories
           THEN /\ proc' = [proc EXCEPT ![p] = [call EXCEPT !.result = "category_not_found"]]
                /\ UNCHANGED <<products, published, delivered>>
           ELSE /\ products' = [k \in DOMAIN products \cup {id} |->
                                  IF k = id THEN product ELSE products[k]]
                /\ published' = published \o sent.published
                /\ delivered' = delivered \o sent.calls
                /\ proc' = Disturb(p, [call EXCEPT
                              !.target = id,
                              !.result = IF sent.raised THEN "handler_error" ELSE "ok"])
    /\ UNCHANGED <<orders, items, payments, handlers>>

(* One client creating products and updating stock levels, one call after
   another *)
NextLevels ==
    \/ \E product_data \in ValidProductCreates : create_product(Client, product_data)
    \/ \E id \in 1..(NumProducts + MaxCalls), update_data \in LevelUpdates :
          update_product_call(Client, id, update_data)
    \/ update_product_write(Client)

SpecLevels == Init /\ [][NextLevels]_vars

----------------------------------------------------------------------------
(* services/payment_service.py *)

(* PaymentStatus.<member>.value *)
PaymentStatusValue(name) ==
    CASE name = "PENDING" -> "pending"
      [] name = "COMPLETED" -> "completed"
      [] name = "FAILED" -> "failed"
      [] name = "REFUNDED" -> "refunded"

(* The member the Enum column yields for a value written to it *)
PaymentStatusMember(value) == CHOOSE name \in PaymentStatus : PaymentStatusValue(name) = value

PaymentIds == 0..(Len(InitPayments) + MaxCalls)

(* PaymentRepository.get_payment_by_order *)
get_payment_by_order(order_id) ==
    {k \in DOMAIN payments : payments[k].order_id = order_id}

(* process_payment and refund_payment without their test of the status *)
status_equals_mut(status, value) == TRUE

(* lines 76 and 85: `payment.status == PaymentStatus.<member>.value`.  The
   status attribute of a loaded Payment is the PaymentStatus member (the column
   is Enum(PaymentStatus)), the right-hand side is the member's value, a str;
   PaymentStatus is a plain Enum, whose members equal no string *)
status_equals(status, value) == status = value

(* lines 55-62: the order is looked up, then a payment of the order *)
create_payment_call(p, order_id) ==
    /\ CanCall(p)
    /\ calls' = calls + 1
    /\ LET call == [StartCall("create_payment") EXCEPT !.target = order_id]
       IN  proc' = [proc EXCEPT ![p] =
                  IF ~order_exists(order_id)
                  THEN [call EXCEPT !.pc = "done", !.result = "order_not_found"]
                  ELSE IF get_payment_by_order(order_id) # {}
                  THEN [call EXCEPT !.pc = "done", !.result = "already_has_payment"]
                  ELSE [call EXCEPT !.pc = "pay_write"]]
    /\ UNCHANGED <<products, orders, items, published, payments, handlers, delivered>>

(* create_payment inserting into a table without the unique order_id *)
create_payment_write_mut(p) ==
    /\ proc[p].pc = "pay_write"
    /\ payments' = Append(payments, [order_id |-> proc[p].target, status |-> "PENDING"])
    /\ proc' = Disturb(p, [proc[p] EXCEPT !.pc = "done", !.result = "ok"])
    /\ UNCHANGED <<products, orders, items, published, calls, handlers, delivered>>

(* lines 64-65: payment_repository.create.  The insert raises when the
   database refuses the row: always when the order has a payment by now
   (order_id is unique), and possibly otherwise (payment_dict carries no id
   for the primary key).  A payment inserted has the column default PENDING *)
create_payment_write(p) ==
    /\ proc[p].pc = "pay_write"
    /\ \/ /\ get_payment_by_order(proc[p].target) = {}
          /\ payments' = Append(payments, [order_id |-> proc[p].target, status |-> "PENDING"])
          /\ proc' = Disturb(p, [proc[p] EXCEPT !.pc = "done", !.result = "ok"])
       \/ /\ payments' = payments
          /\ proc' = [proc EXCEPT ![p] = [@ EXCEPT !.pc = "done", !.result = "IntegrityError"]]
    /\ UNCHANGED <<products, orders, items, published, calls, handlers, delivered>>

(* BaseRepository.update of the status of a payment *)
update_payment_status_row(payment_id, value) ==
    [payments EXCEPT ![payment_id].status = PaymentStatusMember(value)]

(* lines 74-81, one database transaction *)
process_payment(p, payment_id) ==
    /\ CanCall(p)
    /\ calls' = calls + 1
    /\ LET call == [StartCall("process_payment") EXCEPT !.target = payment_id, !.pc = "done"]
       IN  IF payment_id \in DOMAIN payments
              /\ status_equals(payments[payment_id].status, PaymentStatusValue("PENDING"))
           THEN /\ payments' = update_payment_status_row(payment_id, PaymentStatusValue("COMPLETED"))
                /\ proc' = Disturb(p, [call EXCEPT !.result = "ok"])
           ELSE /\ payments' = payments
                /\ proc' = [proc EXCEPT ![p] = [call EXCEPT !.result = "None"]]
    /\ UNCHANGED <<products, orders, items, published, handlers, delivered>>

(* lines 83-90, one database transaction *)
refund_payment(p, payment_id) ==
    /\ CanCall(p)
    /\ calls' = calls + 1
    /\ LET call == [StartCall("refund_payment") EXCEPT !.target = payment_id, !.pc = "done"]
       IN  IF payment_id \in DOMAIN payments
              /\ status_equals(payments[payment_id].status, PaymentStatusValue("COMPLETED"))
           THEN /\ payments' = update_payment_status_row(payment_id, PaymentStatusValue("REFUNDED"))
                /\ proc' = Disturb(p, [call EXCEPT !.result = "ok"])
           ELSE /\ payments' = payments
                /\ proc' = [proc EXCEPT ![p] = [call EXCEPT !.result = "None"]]
    /\ UNCHANGED <<products, orders, items, published, handlers, delivered>>

NextPayments ==
    \E p \in Procs :
        \/ \E o \in OrderIds : create_payment_call(p, o)
        \/ create_payment_write(p)
        \/ \E k \in PaymentIds : process_payment(p, k)
        \/ \E k \in PaymentIds : refund_payment(p, k)

SpecPayments == Init /\ [][NextPayments]_vars

----------------------------------------------------------------------------
(* The event bus from its construction: handlers are subscribed, events are
   published directly and by the update_stock calls of one client *)
BusEvents == {LowStockEvent(1, 1, 1), OutOfStockEvent(1)}

RECURSIVE SubscriptionCount(_)
SubscriptionCount(types) ==
    IF types = {} THEN 0
    ELSE LET t == CHOOSE x \in types : TRUE
         IN  Len(handlers[t]) + SubscriptionCount(types \ {t})

(* EventBus.subscribe, lines 38-40: the handler is appended to the list of
   its event type *)
subscribe(event_type, handler) ==
    /\ SubscriptionCount(EventTypes) < MaxSubs
    /\ handlers' = [handlers EXCEPT ![event_type] = Append(@, handler)]
    /\ UNCHANGED <<products, orders, items, published, proc, calls, payments, delivered>>

(* EventBus.publish called with an event *)
bus_publish(event) ==
    /\ Len(published) < MaxPublished
    /\ published' = Append(published, event)
    /\ delivered' = delivered \o publish(handlers, event, Len(published) + 1).calls
    /\ UNCHANGED <<products, orders, items, proc, calls, payments, handlers>>

InitBus ==
    /\ products = InitProducts
    /\ orders = InitOrders
    /\ items = InitItems
    /\ published = <<>>
    /\ proc = [p \in Procs |-> IdleProc]
    /\ calls = 0
    /\ payments = InitPayments
    /\ handlers = NoHandlers
    /\ delivered = <<>>

NextBus ==
    \/ \E t \in EventTypes, h \in HandlerNames : subscribe(t, h)
    \/ \E event \in BusEvents : bus_publish(event)
    \/ \E c \in StockChanges : update_stock_call(Client, 1, c)
    \/ update_stock_write(Client)

SpecBus == InitBus /\ [][NextBus]_vars

(* Product.restock applied to a product object: every stock, restock date
   and quantity *)
RestockQuantities == (0 - MaxQty)..MaxQty

InitRestock ==
    /\ products = InitProducts
    /\ orders = InitOrders
    /\ items = InitItems
    /\ published = <<>>
    /\ calls = 0
    /\ payments = InitPayments
    /\ handlers = RegisteredHandlers
    /\ delivered = <<>>
    /\ \E id \in ProductIds, n \in 0..MaxStock, d \in {0, Today}, q \in RestockQuantities :
          LET product == [InitProducts[id] EXCEPT !.qty_in_stock = n,
                                                  !.last_restock_date = d]
          IN  proc = [p \in Procs |->
                        IF p = Client
                        THEN [IdleProc EXCEPT !.op = "restock", !.pc = "restock",
                                              !.product = product, !.data = product,
                                              !.target = id, !.change = q]
                        ELSE IdleProc]

restock_apply ==
    /\ proc[Client].pc = "restock"
    /\ LET r == restock(proc[Client].product, proc[Client].change)
       IN  proc' = [proc EXCEPT ![Client] =
                      [@ EXCEPT !.pc = "done", !.result = r.error, !.product = r.product]]
    /\ UNCHANGED <<products, orders, items, published, calls, payments, handlers, delivered>>

SpecRestock == InitRestock /\ [][restock_apply]_vars

----------------------------------------------------------------------------
(* Properties *)

RECURSIVE QtySum(_)
QtySum(its) == IF its = <<>> THEN 0 ELSE Head(its).quantity + QtySum(Tail(its))

RECURSIVE AmountSum(_)
AmountSum(its) ==
    IF its = <<>> THEN 0
    ELSE Head(its).quantity * Head(its).unit_price + AmountSum(Tail(its))

(* The persisted items of an order, and those of them for one product *)
ItemsOf(order_id) == SelectSeq(items, LAMBDA it : it.order_id = order_id)

ItemsOfFor(order_id, id) ==
    SelectSeq(items, LAMBDA it : it.order_id = order_id /\ it.product_id = id)

(* The orders placed by create_order since the initial state *)
PlacedOrders == {o \in DOMAIN orders : o > Len(InitOrders)}

(* A call of op by p has returned and no other request wrote since it started *)
Returned(p, op) == proc[p].pc = "done" /\ proc[p].op = op /\ proc[p].alone

(* C1: No overselling.  When only create_order calls run, concurrently, against
   a product that starts with stock S, the quantities of that product in the
   orders they place sum to at most S. *)
NoOverselling ==
    \A id \in ProductIds :
        QtySum(SelectSeq(items, LAMBDA it : it.order_id \in PlacedOrders /\ it.product_id = id))
            <= InitProducts[id].qty_in_stock

(* C2: Rollback of reserved stock.  When a create_order call returns a line
   rejection, every product has the qty_in_stock it had before the call. *)
RollbackOnRejection ==
    \A p \in Procs :
        (Returned(p, "create_order") /\ proc[p].result \in Rejections)
            => \A id \in ProductIds : products[id].qty_in_stock = proc[p].pre_qty[id]

(* C3: A create_order call that returns a line rejection has created no Order
   row and no OrderItem row: both tables are as they were before the call. *)
NoRowsOnRejection ==
    \A p \in Procs :
        (Returned(p, "create_order") /\ proc[p].result \in Rejections)
            => (orders = proc[p].pre_orders /\ items = proc[p].pre_items)

(* A call was rejected at its second line, after its first line was reserved *)
RejectedAfterReserving ==
    \E p \in Procs :
        /\ Returned(p, "create_order")
        /\ proc[p].result \in Rejections
        /\ proc[p].i = 2
        /\ \E id \in ProductIds : products[id].qty_in_stock < proc[p].pre_qty[id]

(* C4: Cancellation restores stock.  When cancel_order has cancelled an order
   placed by create_order, every product has the qty_in_stock it had before the
   cancellation plus the quantities of the order's items for it. *)
CancelRestoresStock ==
    \A p \in Procs :
        (Returned(p, "cancel_order") /\ proc[p].result = "ok" /\ proc[p].target \in PlacedOrders)
            => \A id \in ProductIds :
                  products[id].qty_in_stock
                      = proc[p].pre_qty[id] + QtySum(ItemsOfFor(proc[p].target, id))

(* The transition table the specification states *)
LegalEdges ==
    {<<"pending", "confirmed">>, <<"pending", "cancelled">>,
     <<"confirmed", "preparing">>, <<"confirmed", "cancelled">>,
     <<"preparing", "ready">>, <<"ready", "delivered">>}

(* C5: Transition legality.  update_order_status on an existing order succeeds,
   setting the requested status, exactly when (current status, requested
   status) is an edge of the table; otherwise the status is unchanged. *)
TransitionLegality ==
    \A p \in Procs :
        (Returned(p, "update_order_status") /\ proc[p].target \in DOMAIN proc[p].pre_orders)
            => LET from == proc[p].pre_orders[proc[p].target].status
                   legal == <<from, proc[p].status>> \in LegalEdges
               IN  /\ proc[p].result = "ok" <=> legal
                   /\ orders[proc[p].target].status = IF legal THEN proc[p].status ELSE from

(* The statuses from which the specification forbids cancellation *)
LaterStatuses == {"preparing", "ready", "delivered"}

(* p returns, in this step, from an attempt to cancel order o *)
CancelAttemptReturns(p, o) ==
    /\ proc'[p] # proc[p]
    /\ proc'[p].pc = "done"
    /\ proc'[p].target = o
    /\ \/ proc'[p].op = "cancel_order"
       \/ proc'[p].op = "update_order_status" /\ proc'[p].status = "cancelled"

(* C6: Cancellation only from PENDING or CONFIRMED.  Every step that makes an
   order's status CANCELLED starts with that status PENDING or CONFIRMED, and
   an attempt to cancel (cancel_order, or update_order_status with CANCELLED)
   an order that is PREPARING, READY or DELIVERED does not succeed and leaves
   the status as it was. *)
CancelOnlyFromPendingOrConfirmed ==
    [][\A o \in DOMAIN orders :
          /\ (orders'[o].status = "cancelled" /\ orders[o].status # "cancelled")
                => orders[o].status \in {"pending", "confirmed"}
          /\ \A p \in Procs :
                (CancelAttemptReturns(p, o) /\ orders[o].status \in LaterStatuses)
                    => (proc'[p].result # "ok" /\ orders'[o].status = orders[o].status)]_vars

(* One request has cancelled a CONFIRMED order, another was refused the
   cancellation of an order that is PREPARING, READY or DELIVERED *)
CancelledAndRefused ==
    \E p, q \in Procs :
        /\ Returned(p, "cancel_order") /\ proc[p].result = "ok"
        /\ proc[p].pre_orders[proc[p].target].status = "confirmed"
        /\ orders[proc[p].target].status = "cancelled"
        /\ proc[q].pc = "done" /\ proc[q].op = "cancel_order" /\ proc[q].result = "None"
        /\ proc[q].target \in DOMAIN orders
        /\ orders[proc[q].target].status \in LaterStatuses

(* The orders some create_order call is still writing the items of *)
BeingAssembled == {proc[p].target : p \in {q \in Procs : proc[q].pc = "co_items"}}

(* C7: Total correctness.  Every order whose create_order call has returned has
   total_amount equal to the sum of quantity * unit_price over its persisted
   items, and the items of a returned call carry the unit prices the call read. *)
TotalCorrectness ==
    /\ \A o \in DOMAIN orders \ BeingAssembled :
          orders[o].total_amount = AmountSum(ItemsOf(o))
    /\ \A p \in Procs :
          (proc[p].pc = "done" /\ proc[p].op = "create_order" /\ proc[p].result = "ok")
              => /\ Len(ItemsOf(proc[p].target)) = Len(proc[p].order_items)
                 /\ \A k \in 1..Len(proc[p].order_items) :
                       /\ ItemsOf(proc[p].target)[k].unit_price = proc[p].order_items[k].unit_price
                       /\ ItemsOf(proc[p].target)[k].quantity = proc[p].lines[k].quantity

(* An order of two lines, one of quantity 2, was placed, and the price of one of
   its products has changed since *)
PlacedThenRepriced ==
    \E o \in PlacedOrders \ BeingAssembled :
        /\ Len(ItemsOf(o)) = 2
        /\ \E k \in 1..2 : ItemsOf(o)[k].quantity = 2
        /\ \E k \in 1..2 :
              ItemsOf(o)[k].unit_price # products[ItemsOf(o)[k].product_id].price

(* C8: Price freezing.  A step in which ProductService.update_product writes a
   product changes no order item and no order's total_amount. *)
PriceFreezing ==
    [][(\E p \in Procs : proc[p].pc = "up_write" /\ proc'[p].pc = "done")
          => /\ items' = items
             /\ \A o \in DOMAIN orders : orders'[o].total_amount = orders[o].total_amount]_vars

(* update_product has changed the price of a product that an existing order
   item was sold at *)
PriceChangedUnderItem ==
    \E p \in Procs :
        /\ Returned(p, "update_product") /\ proc[p].result = "ok"
        /\ "price" \in DOMAIN proc[p].data
        /\ \E k \in 1..Len(items) :
              /\ items[k].product_id = proc[p].target
              /\ items[k].unit_price # products[proc[p].target].price
              /\ products[proc[p].target].price = proc[p].data.price

(* C9: Stock is never negative, in every reachable state. *)
StockNeverNegative ==
    \A id \in ProductIds : products[id].qty_in_stock >= 0

(* A product is sold out and both kinds of request that would take it below
   zero have been refused *)
RefusedAtZero ==
    \E p, q \in Procs, id \in ProductIds :
        /\ products[id].qty_in_stock = 0
        /\ proc[p].pc = "done" /\ proc[p].result = "not_enough_stock"
        /\ proc[p].lines[proc[p].i].product_id = id
        /\ proc[q].pc = "done" /\ proc[q].result = "below_zero" /\ proc[q].target = id

(* The number of LowStockEvents for a product among the published events *)
LowStockCount(evs, id) ==
    Len(SelectSeq(evs, LAMBDA e : e.type = "LowStockEvent" /\ e.product_id = id))

(* C10: Threshold events fire on reservation.  A create_order reservation that
   takes a product's stock from above min_stock_level to at or below it
   publishes exactly one LowStockEvent for the product; one that starts at or
   below min_stock_level publishes none. *)
LowStockEventOnReservation ==
    [][\A p \in Procs :
          (proc[p].pc = "co_write" /\ proc'[p].pc # "co_write")
              => LET id == proc[p].product.id
                     crossing == /\ products[id].qty_in_stock > products[id].min_stock_level
                                 /\ products'[id].qty_in_stock <= products'[id].min_stock_level
                 IN  LowStockCount(published', id)
                        = LowStockCount(published, id) + (IF crossing THEN 1 ELSE 0)]_vars

(* The events a step appended to the published ones *)
NewlyPublished == SubSeq(published', Len(published) + 1, Len(published'))

EventCount(evs, type, id) ==
    Len(SelectSeq(evs, LAMBDA e : e.type = type /\ e.product_id = id))

(* C11: Edge-triggered stock events.  A successful update_stock call that read
   stock o and wrote stock n for a product publishes exactly one LowStockEvent
   for it when o > min_stock_level and n <= min_stock_level and none otherwise,
   exactly one OutOfStockEvent for it when o > 0 and n <= 0 and none otherwise,
   and nothing else. *)
EdgeTriggeredStockEvents ==
    [][\A p \in Procs :
          (proc[p].pc = "us_write" /\ proc'[p].pc = "done")
              => LET id == proc[p].target
                     o == proc[p].product.qty_in_stock
                     n == products'[id].qty_in_stock
                     min == proc[p].product.min_stock_level
                 IN  /\ n = o + proc[p].change
                     /\ SubSeq(published', 1, Len(published)) = published
                     /\ EventCount(NewlyPublished, "LowStockEvent", id)
                            = (IF o > min /\ n <= min THEN 1 ELSE 0)
                     /\ EventCount(NewlyPublished, "OutOfStockEvent", id)
                            = (IF o > 0 /\ n <= 0 THEN 1 ELSE 0)
                     /\ Len(NewlyPublished)
                            = EventCount(NewlyPublished, "LowStockEvent", id)
                              + EventCount(NewlyPublished, "OutOfStockEvent", id)]_vars

(* One update_stock took a product from above its minimum to zero and published
   one event of each kind; a second one, staying at or below the minimum,
   published nothing *)
CrossedBothThenQuiet ==
    \E p, q \in Procs, id \in ProductIds :
        /\ p # q
        /\ proc[p].pc = "done" /\ proc[p].op = "update_stock" /\ proc[p].result = "ok"
        /\ proc[q].pc = "done" /\ proc[q].op = "update_stock" /\ proc[q].result = "ok"
        /\ proc[p].target = id /\ proc[q].target = id
        /\ proc[p].pre_qty[id] > products[id].min_stock_level
        /\ proc[p].pre_qty[id] + proc[p].change = 0
        /\ proc[q].pre_qty[id] = 0 /\ proc[q].change = 1
        /\ products[id].qty_in_stock = 1
        /\ EventCount(published, "LowStockEvent", id) = 1
        /\ EventCount(published, "OutOfStockEvent", id) = 1
        /\ Len(published) = 2

(* C12: Reservation outcome per line.  When create_order reads the product of a
   line, the call is rejected with not-found if the product does not exist,
   else with unavailable if is_available is false, else with insufficient
   stock if qty_in_stock < quantity, and the products are unchanged; otherwise
   the line goes on to its write, which, no other request having written the
   product since the read, decreases its qty_in_stock by exactly quantity and
   leaves every other product alone. *)
ReservationOutcome ==
    [][\A p \in Procs :
          LET line == proc[p].lines[proc[p].i]
              id == line.product_id
          IN  /\ (proc[p].pc = "co_read" /\ proc'[p].pc # "co_read")
                    => /\ products' = products
                       /\ IF id \notin DOMAIN products
                          THEN proc'[p].pc = "done" /\ proc'[p].result = "not_found"
                          ELSE IF ~products[id].is_available
                          THEN proc'[p].pc = "done" /\ proc'[p].result = "not_available"
                          ELSE IF products[id].qty_in_stock < line.quantity
                          THEN proc'[p].pc = "done" /\ proc'[p].result = "not_enough_stock"
                          ELSE proc'[p].pc = "co_write"
              /\ (proc[p].pc = "co_write" /\ proc'[p].pc # "co_write"
                      /\ proc[p].product = products[id])
                    => /\ products'[id].qty_in_stock = products[id].qty_in_stock - line.quantity
                       /\ \A other \in ProductIds \ {id} : products'[other] = products[other]]_vars

(* A call reserved its first line, taking exactly its quantity, and was
   rejected at its second line because the product was unavailable *)
ReservedThenUnavailable ==
    \E p \in Procs :
        /\ proc[p].pc = "done" /\ proc[p].op = "create_order"
        /\ proc[p].result = "not_available"
        /\ proc[p].i = 2
        /\ proc[p].lines[1].quantity = 2
        /\ products[proc[p].lines[1].product_id].qty_in_stock
              = proc[p].pre_qty[proc[p].lines[1].product_id] - 2

(* C13: Atomic persistence.  In every reachable state, an order persisted by a
   create_order call for at least one line has at least one persisted order
   item, also when a write fails between the order and its items. *)
PersistedOrderHasItems ==
    \A p \in Procs :
        (proc[p].op = "create_order" /\ Len(proc[p].lines) > 0
            /\ proc[p].target \in DOMAIN orders)
            => Len(ItemsOf(proc[p].target)) >= 1

(* C14: Release on persistence failure.  When a create_order call has reserved
   every line and then fails persisting the order or one of its items, the
   call returns the error and every product has the qty_in_stock it had before
   the call. *)
ReleaseOnWriteFailure ==
    \A p \in Procs :
        (Returned(p, "create_order") /\ proc[p].result = "write_failed")
            => \A id \in ProductIds : products[id].qty_in_stock = proc[p].pre_qty[id]

(* C15: Optimistic concurrency.  Of two cancel_order calls that read the same
   status of the same order and then both write, at most one succeeds. *)
AtMostOneWriterSucceeds ==
    \A p, q \in Procs :
        (/\ p # q
         /\ proc[p].pc = "done" /\ proc[p].op = "cancel_order"
         /\ proc[q].pc = "done" /\ proc[q].op = "cancel_order"
         /\ proc[p].target = proc[q].target
         /\ proc[p].target \in DOMAIN proc[p].pre_orders
         /\ proc[p].target \in DOMAIN proc[q].pre_orders
         /\ proc[p].pre_orders[proc[p].target].status
               = proc[q].pre_orders[proc[q].target].status)
            => ~(proc[p].result = "ok" /\ proc[q].result = "ok")

(* C16: Empty order rejected.  A create_order call for no lines returns the
   empty-order error, creates no order and changes no stock. *)
EmptyOrderRejected ==
    \A p \in Procs :
        (Returned(p, "create_order") /\ Len(proc[p].lines) = 0)
            => /\ proc[p].result = "empty_order"
               /\ orders = proc[p].pre_orders
               /\ \A id \in ProductIds : products[id].qty_in_stock = proc[p].pre_qty[id]

(* C17: Cancel agrees with the state machine.  A cancel_order call on an
   existing order succeeds exactly when update_order_status accepts the
   transition from the status it read to CANCELLED. *)
CancelAgreesWithTransitions ==
    \A p \in Procs :
        (Returned(p, "cancel_order") /\ proc[p].target \in DOMAIN proc[p].pre_orders)
            => ((proc[p].result = "ok")
                  <=> (is_valid_status_transition(proc[p].pre_orders[proc[p].target].status,
                                                  StatusValue("CANCELLED")) = "True"))

(* The step starts a call of op by request p *)
Calls(p, op) ==
    /\ calls' = calls + 1
    /\ proc'[p].op = op
    /\ proc'[p].alone
    /\ proc'[p].pre_orders = orders

(* C18: CANCELLED is terminal.  No step changes the status of an order that is
   cancelled, and an update_order_status or cancel_order call started on such
   an order returns an error or no order. *)
CancelledIsTerminal ==
    [][\A o \in DOMAIN orders :
          orders[o].status = StatusValue("CANCELLED")
              => /\ orders'[o].status = StatusValue("CANCELLED")
                 /\ \A p \in Procs :
                       ((Calls(p, "update_order_status") \/ Calls(p, "cancel_order"))
                           /\ proc'[p].target = o)
                           => /\ proc'[p].pc = "done"
                              /\ proc'[p].result \in {"None", "AttributeError",
                                                       "invalid_transition"}]_vars

(* An order was cancelled by cancel_order, and an update_order call carrying
   the status pending was then served on it *)
CancelledThenUpdated ==
    \E p, q \in Procs :
        /\ proc[p].pc = "done" /\ proc[p].op = "cancel_order" /\ proc[p].result = "ok"
        /\ proc[q].pc = "done" /\ proc[q].op = "update_order" /\ proc[q].result = "ok"
        /\ proc[q].target = proc[p].target
        /\ proc[q].data.status = StatusValue("PENDING")
        /\ proc[q].pre_orders[proc[q].target].status = StatusValue("CANCELLED")
        /\ orders[proc[q].target].status = StatusValue("CANCELLED")

(* C19: Initial status.  Every order row a step adds has the status pending,
   whatever status the create_order request carries. *)
InitialStatusPending ==
    [][\A o \in DOMAIN orders' \ DOMAIN orders :
          orders'[o].status = StatusValue("PENDING")]_vars

(* An order was placed by a request carrying the status delivered *)
PlacedWithDeliveredRequest ==
    proc[Client].pc = "done" /\ proc[Client].op = "create_order"
        /\ proc[Client].result = "ok"
        /\ proc[Client].status = StatusValue("DELIVERED")
        /\ Len(ItemsOf(proc[Client].target)) >= 1
        /\ orders[proc[Client].target].status = StatusValue("PENDING")

(* C20: update_order scope.  An update_order call changes at most the
   shipping_address and billing_address of its order, and no other order,
   whatever status its request carries; and a step that changes the status of
   an order is the write of a cancel_order or an update_order_status call on
   that order. *)
UpdateOrderScope ==
    [][\A o \in DOMAIN orders :
          /\ \A p \in Procs :
                Calls(p, "update_order")
                    => /\ orders'[o].status = orders[o].status
                       /\ orders'[o].total_amount = orders[o].total_amount
                       /\ o # proc'[p].target => orders'[o] = orders[o]
          /\ orders'[o].status # orders[o].status
                => \E p \in Procs :
                      /\ proc'[p].target = o
                      /\ proc'[p].pc = "done" /\ proc'[p].result = "ok"
                      /\ \/ proc[p].pc = "cancel_write"
                         \/ Calls(p, "update_order_status")]_vars

(* An update_order call carrying a status and both addresses changed the
   addresses of a confirmed order and nothing else *)
AddressesUpdated ==
    \E p \in Procs :
        /\ Returned(p, "update_order") /\ proc[p].result = "ok"
        /\ proc[p].data.status = StatusValue("DELIVERED")
        /\ proc[p].pre_orders[proc[p].target].status = StatusValue("CONFIRMED")
        /\ orders[proc[p].target].status = StatusValue("CONFIRMED")
        /\ orders[proc[p].target].shipping_address = "changed"
        /\ orders[proc[p].target].billing_address = "changed"
        /\ proc[p].pre_orders[proc[p].target].shipping_address # "changed"

(* C21: The order state machine is pure with respect to inventory.  A call of
   update_order_status, whatever it returns, leaves the qty_in_stock of every
   product as it was and publishes and delivers no event. *)
StatusMachinePure ==
    [][\A p \in Procs :
          Calls(p, "update_order_status")
              => /\ \A id \in DOMAIN products :
                       products'[id].qty_in_stock = products[id].qty_in_stock
                 /\ DOMAIN products' = DOMAIN products
                 /\ published' = published
                 /\ delivered' = delivered]_vars

(* An update_order_status call to cancelled on an existing order has returned
   after an update_stock call had emptied a product *)
StatusCallAfterStockChange ==
    \E p \in Procs, id \in ProductIds :
        /\ Returned(p, "update_order_status")
        /\ proc[p].target \in DOMAIN orders
        /\ proc[p].status = StatusValue("CANCELLED")
        /\ proc[p].pre_qty[id] = 0
        /\ products[id].qty_in_stock = 0
        /\ Len(published) = 2

(* C22: Product quantity is mutated only by inventory operations.  A step that
   changes the qty_in_stock of a product is the write of a create_order line,
   of cancel_order or of update_stock; so update_product changes no
   qty_in_stock. *)
QuantityMutatedOnlyByInventory ==
    [][\A id \in ProductIds :
          products'[id].qty_in_stock # products[id].qty_in_stock
              => \E p \in Procs :
                    /\ proc[p].pc \in {"co_write", "cancel_write", "us_write"}
                    /\ proc'[p].pc # proc[p].pc]_vars

(* C23: Restock validation.  Product.restock(quantity) with quantity <= 0
   raises and leaves the product as it was; with quantity > 0 it raises
   nothing, adds exactly quantity to qty_in_stock, sets last_restock_date to
   the current date and changes nothing else. *)
RestockValidation ==
    (proc[Client].op = "restock" /\ proc[Client].pc = "done")
        => LET before == proc[Client].data
               after == proc[Client].product
               quantity == proc[Client].change
           IN  IF quantity <= 0
               THEN proc[Client].result = "ValueError" /\ after = before
               ELSE /\ proc[Client].result = "none"
                    /\ after.qty_in_stock = before.qty_in_stock + quantity
                    /\ after.last_restock_date = Today
                    /\ after = [before EXCEPT !.qty_in_stock = after.qty_in_stock,
                                              !.last_restock_date = Today]

(* A product never restocked, with one unit, was restocked with two *)
RestockedByTwo ==
    /\ proc[Client].op = "restock" /\ proc[Client].pc = "done"
    /\ proc[Client].change = 2
    /\ proc[Client].data.qty_in_stock = 1 /\ proc[Client].data.last_restock_date = 0
    /\ proc[Client].product.qty_in_stock = 3
    /\ proc[Client].product.last_restock_date = Today

(* C24: Stock-level bounds.  After any sequence of create_product and
   update_product calls every persisted product has max_stock_level >
   min_stock_level, and an update_product call refused for its stock levels
   leaves the product as it read it. *)
StockLevelBounds ==
    /\ \A id \in DOMAIN products :
          products[id].max_stock_level > products[id].min_stock_level
    /\ \A p \in Procs :
          (Returned(p, "update_product") /\ proc[p].result = "invalid_levels")
              => products[proc[p].target] = proc[p].product

(* An update setting only max_stock_level was refused against a minimum that
   an earlier update had raised *)
MaxRefusedAfterMinRaised ==
    /\ Returned(Client, "update_product")
    /\ proc[Client].result = "invalid_levels"
    /\ DOMAIN proc[Client].data = {"max_stock_level"}
    /\ proc[Client].data.max_stock_level = 2
    /\ products[proc[Client].target].min_stock_level = 2
    /\ products[proc[Client].target].max_stock_level = 3

(* C26: Events on product update.  An update_product call that takes its
   product from not needing restock to needing it publishes exactly one
   LowStockEvent for it, and one that takes it from in stock to out of stock
   publishes exactly one OutOfStockEvent, the values before being those of
   the product before the update was applied. *)
EventsOnProductUpdate ==
    [][\A p \in Procs :
          (proc[p].pc = "up_write" /\ proc'[p].pc = "done")
              => LET id == proc[p].target
                     before == products[id]
                     after == products'[id]
                 IN  /\ (~needs_restock(before) /\ needs_restock(after))
                           => EventCount(NewlyPublished, "LowStockEvent", id) = 1
                     /\ (is_in_stock(before) /\ ~is_in_stock(after))
                           => EventCount(NewlyPublished, "OutOfStockEvent", id) = 1]_vars

(* C27: Rejected stock update has no effect.  An update_stock call whose
   quantity_change would take the stock below zero returns the below-zero
   error with the products as they were and nothing published or delivered;
   and the update_stock write changes a last_restock_date only of its own
   product and only when quantity_change > 0. *)
RejectedStockUpdate ==
    [][\A p \in Procs :
          /\ (/\ Calls(p, "update_stock")
               /\ proc'[p].pre_qty = [id \in ProductIds |-> products[id].qty_in_stock]
               /\ proc'[p].target \in DOMAIN products
               /\ products[proc'[p].target].qty_in_stock + proc'[p].change < 0)
                => /\ proc'[p].pc = "done" /\ proc'[p].result = "below_zero"
                   /\ products' = products
                   /\ published' = published
                   /\ delivered' = delivered
          /\ (proc[p].pc = "us_write" /\ proc'[p].pc = "done")
                => \A id \in DOMAIN products :
                      products'[id].last_restock_date # products[id].last_restock_date
                          => (id = proc[p].target /\ proc[p].change > 0)]_vars

(* After an update_stock call had taken a product from 2 to 1, a call to take
   2 more was refused *)
RefusedBelowZero ==
    \E p \in Procs :
        /\ Returned(p, "update_stock") /\ proc[p].result = "below_zero"
        /\ proc[p].change = 0 - 2
        /\ proc[p].pre_qty[proc[p].target] = 1
        /\ products[proc[p].target].qty_in_stock = 1
        /\ products[proc[p].target].last_restock_date = 0
        /\ Len(published) = 1

(* The deliveries a step appended *)
NewlyDelivered == SubSeq(delivered', Len(delivered) + 1, Len(delivered'))

(* C25: Event delivery is at-most-once and non-durable.  A delivery is made in
   the step that publishes its event, to a handler subscribed to the event's
   type at that time, and no handler receives one publication twice. *)
AtMostOnceDelivery ==
    [][/\ \A k \in DOMAIN NewlyDelivered :
             /\ NewlyDelivered[k].pub \in (Len(published) + 1)..Len(published')
             /\ published'[NewlyDelivered[k].pub] = NewlyDelivered[k].event
             /\ \E n \in DOMAIN handlers[NewlyDelivered[k].event.type] :
                   handlers[NewlyDelivered[k].event.type][n] = NewlyDelivered[k].handler
       /\ SubSeq(delivered', 1, Len(delivered)) = delivered
       /\ \A i, j \in DOMAIN delivered' :
             (delivered'[i].handler = delivered'[j].handler
                 /\ delivered'[i].pub = delivered'[j].pub) => i = j]_vars

(* C28: Handler failures are isolated.  When update_stock publishes its
   events, every handler subscribed for the type of each event is invoked
   with it, also after a handler has raised, and update_stock returns the
   updated product with the stock change persisted. *)
HandlerFailuresIsolated ==
    [][\A p \in Procs :
          (proc[p].pc = "us_write" /\ proc'[p].pc = "done")
              => LET events == update_stock_events(proc[p].product, proc[p].change)
                 IN  /\ proc'[p].result = "ok"
                     /\ products'[proc[p].target].qty_in_stock
                           = proc[p].product.qty_in_stock + proc[p].change
                     /\ \A e \in DOMAIN events :
                           \A n \in DOMAIN handlers[events[e].type] :
                              \E k \in DOMAIN NewlyDelivered :
                                 /\ NewlyDelivered[k].handler = handlers[events[e].type][n]
                                 /\ NewlyDelivered[k].event = events[e]]_vars

(* C29: At most one payment per order.  However create_payment calls
   interleave, no order has two payments; a create_payment call returns the
   order-not-found error exactly when the order does not exist and the
   already-has-a-payment error when the order exists and had a payment at the
   call; and a call that returned an error created no payment. *)
OnePaymentPerOrder ==
    /\ \A o \in OrderIds : Cardinality(get_payment_by_order(o)) <= 1
    /\ \A p \in Procs :
          (proc[p].op = "create_payment" /\ proc[p].pc = "done")
              => LET had == {k \in DOMAIN proc[p].pre_payments :
                                proc[p].pre_payments[k].order_id = proc[p].target}
                 IN  /\ proc[p].result = "order_not_found"
                            <=> proc[p].target \notin DOMAIN proc[p].pre_orders
                     /\ (proc[p].target \in DOMAIN proc[p].pre_orders /\ had # {})
                            => proc[p].result = "already_has_payment"
                     /\ proc[p].result = "already_has_payment" => had # {}
                     /\ (proc[p].result # "ok" /\ proc[p].alone)
                            => payments = proc[p].pre_payments

(* Two create_payment calls for the same order, which had no payment, both
   passed the lookup; one created the payment and the other was refused by
   the insert *)
ConcurrentPaymentRefused ==
    \E p \in Procs : \E q \in Procs \ {p} :
        /\ proc[p].op = "create_payment" /\ proc[p].pc = "done" /\ proc[p].result = "ok"
        /\ proc[q].op = "create_payment" /\ proc[q].pc = "done"
        /\ proc[q].result = "IntegrityError"
        /\ proc[q].target = proc[p].target
        /\ proc[q].pre_payments = InitPayments /\ proc[p].pre_payments = InitPayments
        /\ Cardinality(get_payment_by_order(proc[p].target)) = 1

(* C30: Payment status transitions.  A step changes the status of a payment
   only from PENDING to COMPLETED in a process_payment call on that payment or
   from COMPLETED to REFUNDED in a refund_payment call on it; a process_payment
   call on a payment that is missing or not PENDING, and a refund_payment call
   on one that is missing or not COMPLETED, returns None with every payment as
   it was. *)
PaymentTransitions ==
    /\ [][\A k \in DOMAIN payments :
            payments'[k].status # payments[k].status
                => \E p \in Procs :
                      /\ proc'[p].target = k /\ proc'[p].pc = "done"
                      /\ \/ /\ proc'[p].op = "process_payment"
                            /\ payments[k].status = "PENDING"
                            /\ payments'[k].status = "COMPLETED"
                         \/ /\ proc'[p].op = "refund_payment"
                            /\ payments[k].status = "COMPLETED"
                            /\ payments'[k].status = "REFUNDED"]_vars
    /\ [](\A p \in Procs :
            /\ (/\ Returned(p, "process_payment")
                 /\ (proc[p].target \in DOMAIN proc[p].pre_payments
                        => proc[p].pre_payments[proc[p].target].status # "PENDING"))
                  => (proc[p].result = "None" /\ payments = proc[p].pre_payments)
            /\ (/\ Returned(p, "refund_payment")
                 /\ (proc[p].target \in DOMAIN proc[p].pre_payments
                        => proc[p].pre_payments[proc[p].target].status # "COMPLETED"))
                  => (proc[p].result = "None" /\ payments = proc[p].pre_payments))

(* refund_payment on the PENDING payment and process_payment on the REFUNDED
   payment both returned None and no payment changed *)
RefundOfPendingRefused ==
    \E p \in Procs : \E q \in Procs \ {p} :
        /\ Returned(p, "refund_payment") /\ proc[p].result = "None"
        /\ proc[p].target \in DOMAIN payments
        /\ payments[proc[p].target].status = "PENDING"
        /\ Returned(q, "process_payment") /\ proc[q].result = "None"
        /\ proc[q].target \in DOMAIN payments
        /\ payments[proc[q].target].status = "REFUNDED"
        /\ payments = InitPayments

============================================================================
